---- MODULE Spec2Model ----
(***************************************************************************)
(* Model of src/pde.ts: a 2D heat-diffusion animation on a canvas.         *)
(*                                                                         *)
(* Numbers.  The program computes with IEEE doubles.  The model ranges     *)
(* over integer-valued doubles (gamma, heatMultiplier, pointer coordinates *)
(* and cell values are integers), on which +, -, * are exact.  The only    *)
(* non-integer results the program then produces are 0.2*heat (rounded by  *)
(* the Uint8ClampedArray store, see ToUint8Clamped/FifthRounded) and       *)
(* Math.exp (see ExpDecay).  Arrays are functions on 0..n-1, as indexed    *)
(* in the source.                                                          *)
(***************************************************************************)
EXTENDS Integers, FiniteSets, Sequences, TLC

VARIABLES
    phase,           \* "loading": before the document-ready callback ran;
                     \* "running": callback completed, handlers registered;
                     \* "crashed": the callback threw, no handler registered
    canvasWidth,     \* canvas.width
    canvasHeight,    \* canvas.height
    scale,           \* let scale           (pde.ts:168)
    gamma,           \* let gamma           (pde.ts:171)
    heatMultiplier,  \* let heatMultiplier  (pde.ts:174)
    beta,            \* let beta            (pde.ts:177)
    rows,            \* let rows            (pde.ts:181)
    cols,            \* let cols            (pde.ts:182)
    heatGrid,        \* let heatGrid        (pde.ts:183)
    imageData,       \* imageData.data      (pde.ts:186), a Uint8ClampedArray
    shown,           \* the canvas' pixels: the last buffer given to putImageData
    timeOutID,       \* let timeOutID       (pde.ts:194), 0 for undefined
    timeouts,        \* ids of the pending setTimeout(animate) timers
    nextID,          \* the id the next setTimeout/setInterval returns
    alerted,         \* text of the alert() the last handler raised, "" if none
    thrown,          \* exception the last handler ended with, "" if none
    mouseEvent,      \* let mouseEvent (pde.ts:232): <<x, y>> canvas position of
                     \* the last mousemove, <<>> while undefined
    holding,         \* let holding         (pde.ts:233)
    intervalID,      \* let intervalID      (pde.ts:234), 0 for undefined
    intervals,       \* ids of the live setInterval timers
    injected         \* number of interval firings that added heat (bounded below)

vars == <<phase, canvasWidth, canvasHeight, scale, gamma, heatMultiplier, beta,
          rows, cols, heatGrid, imageData, shown, timeOutID, timeouts, nextID,
          alerted, thrown, mouseEvent, holding, intervalID, intervals, injected>>

---------------------------------------------------------------------------
(* Bounds of the model *)

\* setTimeout/setInterval ids handed out in one run
MaxTimerID == 3
\* interval firings that add heat in one run
MaxInjections == 1
\* largest grid side (and small canvas side) of the function-level specifications
MaxSide == 3

(* Program constants *)

RowLimit == 1080
ColLimit == 1920
alphaDefault == 255
addedHeatOnMouseClick == 8
BlueChannel == 15
AlphaChannel == 255
ByteMax == 255
betaDivisor == 100000

\* scaleInputToScale (pde.ts:167), indexed by parseInt(scaleInput.value)
scaleInputToScale == <<10, 8, 5, 4, 2, 1>>

InvalidDimensions == "Invalid row or column count!"
GridLargerThanCanvas == "Grid is larger than canvas"
SizeMismatch == "Mismatch in canvas and grid sizes"
UndefinedMouseEvent == "TypeError: mouseEvent is undefined"
RowUndefined == "TypeError: heatGrid[i] is undefined"

---------------------------------------------------------------------------
(* Arrays *)

\* An array is a function from its indices; its length is the largest index
\* plus one.
EmptyArray == [i \in {} |-> 0]
Max(S) == CHOOSE m \in S : \A n \in S : n <= m
Length(a) == IF DOMAIN a = {} THEN 0 ELSE Max(DOMAIN a) + 1

\* NaN (the result of undefined + number) is encoded as an integer no
\* computation of the model produces.
NaN == 0 - 1000000
Plus(v, w) == IF v = NaN \/ w = NaN THEN NaN ELSE v + w

---------------------------------------------------------------------------
(* initializeHeatGrid (pde.ts:2-32) *)

\* alpha * Math.exp(-n) for an integer n >= 0, in integers: e is taken as
\* 2718/1000 and every division rounds down.  Exact for n = 0 (the value is
\* alpha), positive and non-increasing in n, and it underflows to 0 as the
\* double does for large n.
RECURSIVE ExpDecay(_, _)
ExpDecay(v, n) ==
    IF n = 0 \/ v = 0 THEN v ELSE ExpDecay((v * 1000) \div 2718, n - 1)

\* Returns [thrown, grid].  b is the (integer) beta argument.
initializeHeatGrid(nRows, nCols, method, b, alpha) ==
    IF nRows <= 0 \/ nRows > RowLimit \/ nCols <= 0 \/ nCols > ColLimit
    THEN [thrown |-> InvalidDimensions, grid |-> EmptyArray]
    ELSE LET midX == nCols \div 2
             midY == nRows \div 2
             sqDist(i, j) == (i - midY) * (i - midY) + (j - midX) * (j - midX)
         IN  [thrown |-> "",
              grid |-> [i \in 0 .. nRows - 1 |-> [j \in 0 .. nCols - 1 |->
                          IF method = "exp"
                          THEN ExpDecay(alpha, b * sqDist(i, j))
                          ELSE 0]]]

---------------------------------------------------------------------------
(* heatDissipationTimeStep (pde.ts:34-55) *)

\* The loop body for cell (i, j), applied to the array as it is at that
\* point of the pass (pde.ts:44-52).
StepCell(g, gm, i, j) ==
    LET nRows == Length(g)
        nCols == Length(g[0])
        a == IF i - 1 >= 0    THEN g[i - 1][j] ELSE 0
        b == IF i + 1 < nRows THEN g[i + 1][j] ELSE 0
        c == IF j - 1 >= 0    THEN g[i][j - 1] ELSE 0
        d == IF j + 1 < nCols THEN g[i][j + 1] ELSE 0
        e == g[i][j]
        temp == IF NaN \in {a, b, c, d, e} THEN NaN
                ELSE gm * (a + b + c + d + 4 * e) - e
    IN  \* NaN >= 0 is false
        [g EXCEPT ![i][j] = IF temp # NaN /\ temp >= 0 THEN temp ELSE 0]

\* The two nested loops, row-major (pde.ts:41-42): the loop body is applied
\* to the cells k = i * cols + j for k = lo, lo + 1, ..., hi in this order,
\* each application seeing the array the previous one left.
RECURSIVE StepRange(_, _, _, _)
StepRange(g, gm, lo, hi) ==
    LET nCols == Length(g[0])
        mid == (lo + hi) \div 2
    IN  IF lo > hi THEN g
        ELSE IF lo = hi THEN StepCell(g, gm, lo \div nCols, lo % nCols)
        ELSE StepRange(StepRange(g, gm, lo, mid), gm, mid + 1, hi)

heatDissipationTimeStep(g, gm) ==
    StepRange(g, gm, 0, Length(g) * Length(g[0]) - 1)

---------------------------------------------------------------------------
(* drawHeatGrid (pde.ts:57-124) *)

\* A store into a Uint8ClampedArray: clamp to 0..255 (integers are kept).
\* NaN is stored as 0.
ToUint8Clamped(v) ==
    IF v = NaN \/ v < 0 THEN 0 ELSE IF v > ByteMax THEN ByteMax ELSE v

\* 0.2 * heat as the Uint8ClampedArray store rounds it (to the nearest
\* integer; heat/5 is never half-way between two integers).
FifthRounded(heat) ==
    IF heat = NaN \/ heat <= 0 THEN 0 ELSE (2 * heat + 5) \div 10

\* The four bytes stored for one pixel of a cell with value heat (pde.ts:97-100).
PixelBytes(heat) ==
    <<ToUint8Clamped(heat), ToUint8Clamped(FifthRounded(heat)),
      BlueChannel, AlphaChannel>>

\* totalCells with the remainder forgotten
totalCellsFloor(size, sc) == size \div sc

\* totalCellsX / totalCellsY (pde.ts:77-82)
totalCells(size, sc) ==
    IF size % sc = 0 THEN size \div sc ELSE size \div sc + 1

\* The index along one axis (row for y, col for x) of the last iteration of
\* the remainder loop (pde.ts:107-110) that covers coordinate p, -1 if none
\* does: the loop variable starts at fullCells * scale, stops before
\* gridSize, and its inner pixel loop starts at index * scale.
RemainderWriter(fullCells, gridSize, sc, p) ==
    LET covering == {r \in fullCells * sc .. gridSize - 1 : r * sc <= p}
    IN  IF covering = {} THEN -1 ELSE Max(covering)

\* The index along one axis of the iteration of the full-cells loop
\* (pde.ts:91-94) that covers coordinate p, -1 if none does.
FullWriter(fullCells, sc, p) ==
    IF p < fullCells * sc THEN p \div sc ELSE -1

\* Returns [thrown, alerted, data, put]: the exception and alert raised,
\* the buffer afterwards and whether putImageData was reached.  A pixel
\* holds what the last iteration covering it stored; the remainder loop
\* runs after the full-cells loop.
drawHeatGrid(w, h, data, g, sc) ==
    LET gridSizeX == Length(g[0])
        gridSizeY == Length(g)
        fullCellsX == w \div sc
        fullCellsY == h \div sc
        remCol == [x \in 0 .. w - 1 |-> RemainderWriter(fullCellsX, gridSizeX, sc, x)]
        remRow == [y \in 0 .. h - 1 |-> RemainderWriter(fullCellsY, gridSizeY, sc, y)]
        fullCol == [x \in 0 .. w - 1 |-> FullWriter(fullCellsX, sc, x)]
        fullRow == [y \in 0 .. h - 1 |-> FullWriter(fullCellsY, sc, y)]
        pixel == [p \in 0 .. w * h - 1 |->
                    LET x == p % w
                        y == p \div w
                    IN  IF remRow[y] >= 0 /\ remCol[x] >= 0
                        THEN PixelBytes(g[remRow[y]][remCol[x]])
                        ELSE IF fullRow[y] >= 0 /\ fullCol[x] >= 0
                        THEN PixelBytes(g[fullRow[y]][fullCol[x]])
                        ELSE <<data[4 * p], data[4 * p + 1],
                               data[4 * p + 2], data[4 * p + 3]>>]
        filled == [k \in 0 .. w * h * 4 - 1 |-> pixel[k \div 4][(k % 4) + 1]]
    IN  IF gridSizeX > w \/ gridSizeY > h
        THEN [thrown |-> GridLargerThanCanvas, alerted |-> GridLargerThanCanvas,
              data |-> data, put |-> FALSE]
        ELSE IF totalCells(w, sc) # gridSizeX \/ totalCells(h, sc) # gridSizeY
        THEN [thrown |-> SizeMismatch, alerted |-> SizeMismatch,
              data |-> data, put |-> FALSE]
        ELSE [thrown |-> "", alerted |-> "", data |-> filled, put |-> TRUE]

\* ctx.createImageData(width, height): transparent black (pde.ts:186, 217)
createImageData(w, h) == [k \in 0 .. w * h * 4 - 1 |-> 0]

---------------------------------------------------------------------------
(* canvasXYToGridXY (pde.ts:141-145); \div rounds down, as Math.floor *)

canvasXYToGridXY(canvasX, canvasY, sc) ==
    <<(canvasX - 1) \div sc, (canvasY - 1) \div sc>>

---------------------------------------------------------------------------
(* The body of the interval callback that adds heat (pde.ts:246-266) *)

\* heatGrid[i][j] += heat.  Reading a missing row throws a TypeError;
\* a missing element of an existing row reads undefined, and
\* undefined + heat = NaN is stored at index j.
AddAt(r, i, j, heat) ==
    IF r.thrown # "" THEN r
    ELSE IF i \notin DOMAIN r.grid
    THEN [r EXCEPT !.thrown = RowUndefined]
    ELSE LET row == r.grid[i]
             v == IF j \in DOMAIN row THEN Plus(row[j], heat) ELSE NaN
             newRow == [jj \in DOMAIN row \cup {j} |-> IF jj = j THEN v ELSE row[jj]]
         IN  [r EXCEPT !.grid = [ii \in DOMAIN r.grid |->
                                    IF ii = i THEN newRow ELSE r.grid[ii]]]

\* Returns [thrown, grid].  The statements run in the order of the source
\* (pde.ts:251-265); one that throws ends the callback and keeps the
\* updates made before it.
addHeat(g, nRows, nCols, gridX, gridY, heat) ==
    LET r0 == [thrown |-> "", grid |-> g]
        r1 == AddAt(r0, gridY, gridX, heat)
        r2 == IF gridX > 0         THEN AddAt(r1, gridY, gridX - 1, heat) ELSE r1
        r3 == IF gridX < nCols - 1 THEN AddAt(r2, gridY, gridX + 1, heat) ELSE r2
        r4 == IF gridY > 0         THEN AddAt(r3, gridY - 1, gridX, heat) ELSE r3
        r5 == IF gridY < nRows - 1 THEN AddAt(r4, gridY + 1, gridX, heat) ELSE r4
    IN  IF gridX >= 0 /\ gridX < nCols /\ gridY >= 0 /\ gridY < nRows
        THEN r5
        ELSE r0

---------------------------------------------------------------------------
(* animate (pde.ts:200-204) *)

\* animate with its first two statements exchanged: the step runs before
\* the render.
animateStepFirst(w, h, data, g, sc, gm) ==
    LET stepped == heatDissipationTimeStep(g, gm)
        d == drawHeatGrid(w, h, data, stepped, sc)
    IN  [thrown |-> d.thrown, alerted |-> d.alerted, data |-> d.data,
         put |-> d.put, grid |-> stepped, scheduled |-> d.thrown = ""]

\* Returns [thrown, alerted, data, put, grid, scheduled].  drawHeatGrid
\* runs first; when it throws, neither the step nor setTimeout is reached.
animate(w, h, data, g, sc, gm) ==
    LET d == drawHeatGrid(w, h, data, g, sc)
    IN  IF d.thrown # ""
        THEN [thrown |-> d.thrown, alerted |-> d.alerted, data |-> d.data,
              put |-> d.put, grid |-> g, scheduled |-> FALSE]
        ELSE [thrown |-> "", alerted |-> d.alerted, data |-> d.data,
              put |-> d.put, grid |-> heatDissipationTimeStep(g, gm),
              scheduled |-> TRUE]

---------------------------------------------------------------------------
(* The values the page's inputs and the pointer are drawn from *)

\* <<canvas.width, canvas.height>>
CanvasSizes == {<<3, 2>>}
\* parseInt(scaleInput.value): keys of scaleInputToScale (scales 10, 2 and 1)
ScaleInputs == {1, 5, 6}
\* parseFloat(gammaInput.value)
Gammas == {0, 1}
\* parseFloat(heatMultiplierInput.value)
HeatMultipliers == {-1, 1}
\* parseInt(betaInput.value); multiples of betaDivisor keep betaScaled an integer
Betas == {betaDivisor}
\* getMousePosition: pointer positions relative to the canvas' corner
MousePositions == {<<0, 1>>, <<2, 2>>}

\* betaScaled (pde.ts:178, 211)
betaScaledOf(bt, sc) == (bt \div betaDivisor) * sc * sc

---------------------------------------------------------------------------
(* The program *)

Init ==
    /\ phase = "loading"
    /\ \E size \in CanvasSizes : canvasWidth = size[1] /\ canvasHeight = size[2]
    /\ scale = 0 /\ gamma = 0 /\ heatMultiplier = 0 /\ beta = 0
    /\ rows = 0 /\ cols = 0
    /\ heatGrid = EmptyArray
    /\ imageData = EmptyArray
    /\ shown = createImageData(canvasWidth, canvasHeight)
    /\ timeOutID = 0 /\ timeouts = {} /\ nextID = 1
    /\ alerted = "" /\ thrown = ""
    /\ mouseEvent = <<>> /\ holding = FALSE
    /\ intervalID = 0 /\ intervals = {}
    /\ injected = 0

\* What a call of animate() leaves in the closure's variables; pending are
\* the timers still pending when it is called.
Animated(an, pending) ==
    /\ heatGrid' = an.grid
    /\ imageData' = an.data
    /\ shown' = IF an.put THEN an.data ELSE shown
    /\ alerted' = an.alerted
    /\ thrown' = an.thrown
    /\ IF an.scheduled
       THEN /\ nextID <= MaxTimerID
            /\ timeOutID' = nextID
            /\ timeouts' = pending \cup {nextID}
            /\ nextID' = nextID + 1
       ELSE /\ timeOutID' = timeOutID
            /\ timeouts' = pending
            /\ nextID' = nextID

\* What the callback's start-up code and the reset listener compute from
\* the inputs (pde.ts:168-186 and 209-217): [scale, rows, cols, init, image]
\* with init the result of initializeHeatGrid and image the new ImageData.
Setup(si, bt) ==
    LET sc == scaleInputToScale[si]
        nRows == canvasHeight \div sc
        nCols == canvasWidth \div sc
    IN  [scale |-> sc, rows |-> nRows, cols |-> nCols,
         init |-> initializeHeatGrid(nRows, nCols, "exp", betaScaledOf(bt, sc),
                                     alphaDefault),
         image |-> createImageData(canvasWidth, canvasHeight)]

\* The document-ready callback (pde.ts:150-288).  An exception from
\* initializeHeatGrid (pde.ts:183) or from the first animate() (pde.ts:195)
\* ends it before any listener is registered.
OnDocumentReady(si, g, hm, bt) ==
    LET s == Setup(si, bt)
        an == animate(canvasWidth, canvasHeight, s.image, s.init.grid, s.scale, g)
    IN  /\ phase = "loading"
        /\ scale' = s.scale
        /\ gamma' = g
        /\ heatMultiplier' = hm
        /\ beta' = bt
        /\ rows' = s.rows
        /\ cols' = s.cols
        /\ IF s.init.thrown # ""
           THEN /\ phase' = "crashed"
                /\ thrown' = s.init.thrown
                /\ alerted' = ""
                /\ UNCHANGED <<heatGrid, imageData, shown, timeOutID, timeouts,
                               nextID>>
           ELSE /\ phase' = IF an.thrown # "" THEN "crashed" ELSE "running"
                /\ Animated(an, timeouts)
        /\ UNCHANGED <<canvasWidth, canvasHeight, mouseEvent, holding,
                       intervalID, intervals, injected>>

\* A pending setTimeout(animate, ...) fires (pde.ts:203).
AnimateTimeout(id) ==
    /\ phase = "running"
    /\ id \in timeouts
    /\ Animated(animate(canvasWidth, canvasHeight, imageData, heatGrid, scale, gamma),
                timeouts \ {id})
    /\ UNCHANGED <<phase, canvasWidth, canvasHeight, scale, gamma, heatMultiplier,
                   beta, rows, cols, mouseEvent, holding, intervalID, intervals,
                   injected>>

\* The reset button's click listener (pde.ts:206-220).  The assignments run in the order of the source: an exception from
\* initializeHeatGrid (pde.ts:216) ends the listener after gamma, scale,
\* beta, rows and cols were assigned and before heatGrid, imageData and the
\* timer are touched.
ResetClick(si, g, bt) ==
    LET s == Setup(si, bt)
        an == animate(canvasWidth, canvasHeight, s.image, s.init.grid, s.scale,
                      g)
    IN  /\ phase = "running"
        /\ gamma' = g
        /\ scale' = s.scale
        /\ beta' = bt
        /\ rows' = s.rows
        /\ cols' = s.cols
        /\ IF s.init.thrown # ""
           THEN /\ thrown' = s.init.thrown
                /\ alerted' = ""
                /\ UNCHANGED <<heatGrid, imageData, shown, timeOutID, timeouts,
                               nextID>>
           ELSE Animated(an, IF timeOutID # 0 THEN timeouts \ {timeOutID}
                             ELSE timeouts)
        /\ UNCHANGED <<phase, canvasWidth, canvasHeight, heatMultiplier,
                       mouseEvent, holding, intervalID, intervals, injected>>

\* gammaInput's change listener (pde.ts:222-224).
GammaChange(g) ==
    /\ phase = "running"
    /\ gamma' = g
    /\ alerted' = "" /\ thrown' = ""
    /\ UNCHANGED <<phase, canvasWidth, canvasHeight, scale, heatMultiplier, beta,
                   rows, cols, heatGrid, imageData, shown, timeOutID, timeouts,
                   nextID, mouseEvent, holding, intervalID, intervals, injected>>

\* heatMultiplierInput's change listener (pde.ts:226-228).
HeatMultiplierChange(hm) ==
    /\ phase = "running"
    /\ heatMultiplier' = hm
    /\ alerted' = "" /\ thrown' = ""
    /\ UNCHANGED <<phase, canvasWidth, canvasHeight, scale, gamma, beta,
                   rows, cols, heatGrid, imageData, shown, timeOutID, timeouts,
                   nextID, mouseEvent, holding, intervalID, intervals, injected>>

\* interval() (pde.ts:236-269): a new setInterval whose id replaces intervalID.
interval ==
    /\ nextID <= MaxTimerID
    /\ intervalID' = nextID
    /\ intervals' = intervals \cup {nextID}
    /\ nextID' = nextID + 1

\* The canvas' mousedown / mouseup / mouseleave listeners (pde.ts:270-281).
MouseButton(held) ==
    /\ phase = "running"
    /\ holding' = held
    /\ interval
    /\ alerted' = "" /\ thrown' = ""
    /\ UNCHANGED <<phase, canvasWidth, canvasHeight, scale, gamma, heatMultiplier,
                   beta, rows, cols, heatGrid, imageData, shown, timeOutID,
                   timeouts, mouseEvent, injected>>

MouseDown == MouseButton(TRUE)
MouseUp == MouseButton(FALSE)
MouseLeave == MouseButton(FALSE)

\* The canvas' mousemove listener (pde.ts:282-284).
MouseMove(pos) ==
    /\ phase = "running"
    /\ mouseEvent' = pos
    /\ alerted' = "" /\ thrown' = ""
    /\ UNCHANGED <<phase, canvasWidth, canvasHeight, scale, gamma, heatMultiplier,
                   beta, rows, cols, heatGrid, imageData, shown, timeOutID,
                   timeouts, nextID, holding, intervalID, intervals, injected>>

\* The pointer's grid cell <<gridX, gridY>> (pde.ts:244-245).
PointerCell == canvasXYToGridXY(mouseEvent[1], mouseEvent[2], scale)

\* (pde.ts:248)
InBounds(gridX, gridY) ==
    gridX >= 0 /\ gridX < cols /\ gridY >= 0 /\ gridY < rows

\* One firing of the live interval timer id (the callback, pde.ts:237-268).
IntervalFire(id) ==
    /\ phase = "running"
    /\ id \in intervals
    /\ alerted' = ""
    /\ IF ~holding
       THEN /\ intervals' = intervals \ {intervalID}
            /\ thrown' = ""
            /\ UNCHANGED <<heatGrid, injected>>
       ELSE IF mouseEvent = <<>>
       THEN \* getMousePosition reads event.clientX of undefined
            /\ thrown' = UndefinedMouseEvent
            /\ UNCHANGED <<heatGrid, intervals, injected>>
       ELSE LET added == addHeat(heatGrid, rows, cols, PointerCell[1],
                                 PointerCell[2],
                                 heatMultiplier * addedHeatOnMouseClick)
            IN  /\ heatGrid' = added.grid
                /\ thrown' = added.thrown
                /\ IF InBounds(PointerCell[1], PointerCell[2])
                   THEN injected < MaxInjections /\ injected' = injected + 1
                   ELSE injected' = injected
                /\ UNCHANGED intervals
    /\ UNCHANGED <<phase, canvasWidth, canvasHeight, scale, gamma, heatMultiplier,
                   beta, rows, cols, imageData, shown, timeOutID, timeouts,
                   nextID, mouseEvent, holding, intervalID>>

Next ==
    \/ \E si \in ScaleInputs, g \in Gammas, hm \in HeatMultipliers, bt \in Betas :
           OnDocumentReady(si, g, hm, bt)
    \/ \E id \in timeouts : AnimateTimeout(id)
    \/ \E si \in ScaleInputs, g \in Gammas, bt \in Betas : ResetClick(si, g, bt)
    \/ \E g \in Gammas : GammaChange(g)
    \/ \E hm \in HeatMultipliers : HeatMultiplierChange(hm)
    \/ MouseDown
    \/ MouseUp
    \/ MouseLeave
    \/ \E pos \in MousePositions : MouseMove(pos)
    \/ \E id \in intervals : IntervalFire(id)

Spec == Init /\ [][Next]_vars

---------------------------------------------------------------------------
(* Function-level specifications: one call of a function on inputs drawn   *)
(* from bounded sets.  phase is "call" before the call and "returned"      *)
(* after it; the variables the function does not touch keep the values    *)
(* below.                                                                  *)

Idle ==
    /\ beta = 0 /\ heatMultiplier = 0 /\ rows = 0 /\ cols = 0
    /\ timeOutID = 0 /\ timeouts = {} /\ nextID = 1
    /\ alerted = "" /\ thrown = ""
    /\ mouseEvent = <<>> /\ holding = FALSE
    /\ intervalID = 0 /\ intervals = {}
    /\ injected = 0

\* Test grids of nRows x nCols cells: all cells 1, one hot cell in the
\* first or in the last corner, and a different value in every cell.
TestGrids(nRows, nCols) ==
    { [i \in 0 .. nRows - 1 |-> [j \in 0 .. nCols - 1 |-> 1]],
      [i \in 0 .. nRows - 1 |-> [j \in 0 .. nCols - 1 |->
          IF i = 0 /\ j = 0 THEN 5 ELSE 0]],
      [i \in 0 .. nRows - 1 |-> [j \in 0 .. nCols - 1 |->
          IF i = nRows - 1 /\ j = nCols - 1 THEN 5 ELSE 0]],
      [i \in 0 .. nRows - 1 |-> [j \in 0 .. nCols - 1 |->
          10 * (i * nCols + j) + 7]] }

StepGammas == {-1, 0, 1, 2}

InitStep ==
    /\ phase = "call"
    /\ canvasWidth = 0 /\ canvasHeight = 0 /\ scale = 0
    /\ imageData = EmptyArray /\ shown = EmptyArray
    /\ gamma \in StepGammas
    /\ \E nRows \in 1 .. MaxSide, nCols \in 1 .. MaxSide :
           heatGrid \in TestGrids(nRows, nCols)
    /\ Idle

StepCall ==
    /\ phase = "call"
    /\ phase' = "returned"
    /\ heatGrid' = heatDissipationTimeStep(heatGrid, gamma)
    /\ UNCHANGED <<canvasWidth, canvasHeight, scale, gamma, heatMultiplier, beta,
                   rows, cols, imageData, shown, timeOutID, timeouts, nextID,
                   alerted, thrown, mouseEvent, holding, intervalID, intervals,
                   injected>>

SpecStep == InitStep /\ [][StepCall]_vars

\* Canvas sides, scales and buffers for drawHeatGrid.
DrawSides == (1 .. MaxSide) \cup {10}
DrawScales == {1, 2, 3, 4, 5}
\* The buffer a previous frame left: every pixel of a cell with value 40.
PreviousFrame(w, h) == [k \in 0 .. w * h * 4 - 1 |-> PixelBytes(40)[(k % 4) + 1]]

InitDraw ==
    /\ phase = "call"
    /\ canvasWidth \in DrawSides
    /\ canvasHeight \in DrawSides
    /\ scale \in DrawScales
    /\ gamma = 0
    /\ \E nRows \in 1 .. MaxSide, nCols \in 1 .. MaxSide :
           heatGrid \in TestGrids(nRows, nCols)
    /\ imageData \in {createImageData(canvasWidth, canvasHeight),
                      PreviousFrame(canvasWidth, canvasHeight)}
    /\ shown = createImageData(canvasWidth, canvasHeight)
    /\ Idle

DrawCall ==
    LET d == drawHeatGrid(canvasWidth, canvasHeight, imageData, heatGrid, scale)
    IN  /\ phase = "call"
        /\ phase' = "returned"
        /\ imageData' = d.data
        /\ shown' = IF d.put THEN d.data ELSE shown
        /\ thrown' = d.thrown
        /\ alerted' = d.alerted
        /\ UNCHANGED <<canvasWidth, canvasHeight, scale, gamma, heatMultiplier,
                       beta, rows, cols, heatGrid, timeOutID, timeouts, nextID,
                       mouseEvent, holding, intervalID, intervals, injected>>

SpecDraw == InitDraw /\ [][DrawCall]_vars

---------------------------------------------------------------------------
(* Properties                                                              *)

\* One diffusion step computed from a snapshot of the grid taken before the
\* step: every neighbour read sees the value the cell had before the step.
SnapshotStep(g, gm) ==
    [i \in DOMAIN g |-> [j \in DOMAIN g[i] |->
        LET up    == IF i - 1 \in DOMAIN g THEN g[i - 1][j] ELSE 0
            down  == IF i + 1 \in DOMAIN g THEN g[i + 1][j] ELSE 0
            left  == IF j - 1 \in DOMAIN g[i] THEN g[i][j - 1] ELSE 0
            right == IF j + 1 \in DOMAIN g[i] THEN g[i][j + 1] ELSE 0
            t == gm * (up + down + left + right + 4 * g[i][j]) - g[i][j]
        IN  IF t < 0 THEN 0 ELSE t]]

\* C1: a diffusion step gives every cell the value max(0, gamma * (up +
\* down + left + right + 4 * self) - self) computed from the grid as it
\* was before the step, whatever the order in which cells are visited.
C1_StepUsesSnapshot ==
    [][StepCall => heatGrid' = SnapshotStep(heatGrid, gamma)]_vars

\* The four bytes of pixel (x, y) of a buffer for a canvas w pixels wide.
PixelAt(data, w, x, y) ==
    [b \in 1 .. 4 |-> data[(y * w + x) * 4 + b - 1]]

\* C2: after a successful render every pixel (x, y) of the target holds
\* the colour of the cell (y div scale, x div scale), the remainder strips
\* at the right and bottom edges included; no pixel keeps stale data.
C2_EveryPixelWritten ==
    (phase = "returned" /\ thrown = "") =>
        \A x \in 0 .. canvasWidth - 1, y \in 0 .. canvasHeight - 1 :
            PixelAt(imageData, canvasWidth, x, y)
                = PixelBytes(heatGrid[y \div scale][x \div scale])

\* C3: every cell of the grid is non-negative after any sequence of
\* diffusion steps and heat injections, for every gamma and for the
\* injection amount heatMultiplier * 8.
C3_CellsNonNegative ==
    phase = "running" =>
        \A i \in DOMAIN heatGrid : \A j \in DOMAIN heatGrid[i] :
            heatGrid[i][j] >= 0

\* A firing of an injection interval while the button is held and a mouse
\* position is known: the callback reaches the injection.
InjectionFrame ==
    /\ holding
    /\ mouseEvent # <<>>
    /\ timeouts' = timeouts
    /\ \E id \in intervals : IntervalFire(id)

\* The grid with amount a added to cell (r, c) and to its cardinal
\* neighbours that lie in the grid.
Injected(g, r, c, a) ==
    [i \in DOMAIN g |-> [j \in DOMAIN g[i] |->
        IF (i = r /\ j = c)
           \/ (j = c /\ (i = r - 1 \/ i = r + 1))
           \/ (i = r /\ (j = c - 1 \/ j = c + 1))
        THEN g[i][j] + a ELSE g[i][j]]]

\* C4: an injection frame at pointer cell (row, col) with amount a leaves
\* the grid unchanged when the cell lies outside the grid, and otherwise
\* adds a to exactly the cell and its in-grid cardinal neighbours.
C4_InjectionFootprint ==
    [][InjectionFrame =>
        LET col == PointerCell[1]
            row == PointerCell[2]
            a == heatMultiplier * addedHeatOnMouseClick
        IN  IF row \in DOMAIN heatGrid /\ col \in DOMAIN heatGrid[row]
            THEN heatGrid' = Injected(heatGrid, row, col, a)
            ELSE heatGrid' = heatGrid]_vars

\* floor(size / scale), plus one when scale does not divide size.
ExpectedCells(size, sc) == (size + sc - 1) \div sc

MismatchErrors == {GridLargerThanCanvas, SizeMismatch}

\* C5: a render fails with a grid/target mismatch exactly when the cell
\* counts the target needs differ from the grid's dimensions; a failed
\* render writes nothing to the buffer and commits nothing to the canvas.
C5_MismatchExactly ==
    [][DrawCall =>
        LET mismatch ==
                \/ ExpectedCells(canvasWidth, scale) # Length(heatGrid[0])
                \/ ExpectedCells(canvasHeight, scale) # Length(heatGrid)
        IN  /\ mismatch <=> thrown' \in MismatchErrors
            /\ ~mismatch <=> thrown' = ""
            /\ mismatch => /\ imageData' = imageData
                           /\ shown' = shown
                           /\ alerted' # ""
            /\ ~mismatch => shown' = imageData']_vars

\* A 3 x 3 grid rendered on a 10 x 10 target at scale 5 has been rejected.
C5_Witness ==
    /\ phase = "returned"
    /\ canvasWidth = 10 /\ canvasHeight = 10 /\ scale = 5
    /\ Length(heatGrid) = 3 /\ Length(heatGrid[0]) = 3
    /\ thrown = SizeMismatch
    /\ imageData = PreviousFrame(10, 10)

\* C6: after start-up and after any reset clicks the live grid has
\* ceil(canvasHeight / scale) rows and ceil(canvasWidth / scale) columns
\* for the current scale, and the render never rejects it.
C6_LockStep ==
    (phase # "loading" /\ heatGrid # EmptyArray) =>
        /\ Length(heatGrid) = ExpectedCells(canvasHeight, scale)
        /\ Length(heatGrid[0]) = ExpectedCells(canvasWidth, scale)
        /\ thrown \notin MismatchErrors

\* An animation timer fires.  (Every tick changes the set of pending
\* timers; the first conjunct lets the other steps be told apart cheaply.)
Tick ==
    /\ timeouts' # timeouts
    /\ \E id \in timeouts : AnimateTimeout(id)

\* C7: whenever an animation tick or an injection frame runs, the live
\* grid has exactly rows rows and cols columns, and rows and cols are the
\* values computed from the current scale: a reset changes scale, rows,
\* cols and the grid together or not at all.
C7_ResetAtomic ==
    [][(Tick \/ InjectionFrame) =>
        /\ rows = canvasHeight \div scale
        /\ cols = canvasWidth \div scale
        /\ Length(heatGrid) = rows
        /\ \A i \in DOMAIN heatGrid : Length(heatGrid[i]) = cols]_vars

\* C8: when grid construction fails with invalid dimensions or a render
\* fails with a mismatch, the user has been alerted and no animation timer
\* remains pending.
C8_FailureSurfaced ==
    thrown \in {InvalidDimensions} \cup MismatchErrors =>
        /\ alerted # ""
        /\ timeouts = {}

C10_OneInterval ==
    Cardinality(intervals) <= 1

====
